---------------------------- MODULE Spec2Model ----------------------------
(***************************************************************************)
(* AnaFis symbolic core (src-tauri/python/sympy_calls.py).                 *)
(*                                                                         *)
(* The two public contracts, calculate_symbolic_data and                   *)
(* generate_latex_data, are modelled as a sequence of stages over the      *)
(* locals of the running call.  Text (formulas, str() and latex() output,  *)
(* error messages) is modelled as a sequence of lexemes; expressions are   *)
(* tagged tuples kept in the canonical form the symbolic engine keeps      *)
(* them in; floating point values are complex fixed-point numbers.         *)
(***************************************************************************)
EXTENDS Integers, Sequences, FiniteSets, TLC

VARIABLES
    sp,                    \* the symbolic engine's namespace (sp.acos, sp.pi, ...)
    pc,                    \* position of the running call
    fn,                    \* which contract is running
    formula,               \* argument: the formula text
    variables,             \* argument: the declared variable names
    values,                \* argument: the values (calculate_symbolic_data)
    expr,                  \* local: parsed expression
    uncertainty_expr,      \* local: the synthesized uncertainty expression
    derivatives,           \* local: name -> str(derivative) / derivative
    expr_value,            \* local: substituted / evaluated expression
    numerical_value,       \* local: float(expr_value)
    numerical_derivatives, \* local: name -> float
    exc,                   \* the exception in flight, if any
    result,                \* the structured result handed to the host
    memo                   \* an earlier invocation the host remembers

vars == <<sp, pc, fn, formula, variables, values, expr, uncertainty_expr,
          derivatives, expr_value, numerical_value, numerical_derivatives, exc,
          result, memo>>

-----------------------------------------------------------------------------
(* Bounds of the model *)

MaxVars == 2               \* longest declared variable list
MaxSince == 2              \* invocations counted after a remembered one

VarNames == <<"I", "e", "x", "y">>      \* names a host may declare, sorted
ValueSet == {-1, 0, 1, 2}               \* values a host may supply

None == <<"None">>
EmptyMap == [v \in {} |-> <<>>]

-----------------------------------------------------------------------------
(* Generic helpers on sequences *)

Range(s) == {s[i] : i \in DOMAIN s}

Abs(n) == IF n < 0 THEN -n ELSE n

RECURSIVE Gcd(_, _)
Gcd(a, b) == IF b = 0 THEN Abs(a) ELSE Gcd(b, a % b)

-----------------------------------------------------------------------------
(* Numbers.  An exact number is <<"rat", p, q>> (q > 0, lowest terms); a     *)
(* floating point number is <<"flt", re, im>>, complex, in units of 1/Scale. *)

Scale == 10 * 10

RoundDiv(n, d) == IF n >= 0 THEN (2 * n + d) \div (2 * d)
                            ELSE -((2 * (-n) + d) \div (2 * d))

Rat(p, q) ==
    LET g == Gcd(p, q)
        s == IF q < 0 THEN -1 ELSE 1
    IN  <<"rat", (s * p) \div g, (s * q) \div g>>

Integer(n) == <<"rat", n, 1>>
Flt(re, im) == <<"flt", re, im>>
Sym(name) == <<"sym", name>>
Const(name) == <<"const", name>>
Zoo == <<"const", "zoo">>
Nan == <<"const", "nan">>
ImagUnit == <<"const", "I">>
Half == <<"rat", 1, 2>>

Tag(e) == e[1]
IsRat(e) == Tag(e) = "rat"
IsFlt(e) == Tag(e) = "flt"
IsNumber(e) == Tag(e) \in {"rat", "flt"}
IsInteger(e) == IsRat(e) /\ e[3] = 1
IsZero(e) == (IsRat(e) /\ e[2] = 0) \/ (IsFlt(e) /\ e[2] = 0 /\ e[3] = 0)
IsOne(e) == IsRat(e) /\ e[2] = 1 /\ e[3] = 1
IsInfinite(e) == e = Zoo \/ e = Nan

ToFlt(n) == IF IsFlt(n) THEN n ELSE Flt(RoundDiv(n[2] * Scale, n[3]), 0)

FMul(a, b) == Flt(RoundDiv(a[2] * b[2] - a[3] * b[3], Scale),
                  RoundDiv(a[2] * b[3] + a[3] * b[2], Scale))
\* 1/a for a # 0
FInv(a) ==
    LET n == a[2] * a[2] + a[3] * a[3]
    IN  Flt(RoundDiv(a[2] * Scale * Scale, n), RoundDiv(-(a[3]) * Scale * Scale, n))

ISqrt(n) == CHOOSE k \in 0..(n + 1) : k * k <= n /\ (k + 1) * (k + 1) > n

\* principal square root of a real floating point number
FSqrt(a) ==
    IF a[3] # 0 THEN CHOOSE z \in {} : TRUE       \* outside the modelled domain
    ELSE IF a[2] >= 0 THEN Flt(ISqrt(a[2] * Scale), 0)
    ELSE Flt(0, ISqrt((-a[2]) * Scale))

\* acos at the real points the model evaluates it at (1/Scale units)
FAcos(a) ==
    CASE a = Flt(0, 0)          -> Flt(157, 0)
      [] a = Flt(Scale, 0)      -> Flt(0, 0)
      [] a = Flt(-Scale, 0)     -> Flt(314, 0)
      [] a = Flt(2 * Scale, 0)  -> Flt(0, 132)
      [] a = Flt(-2 * Scale, 0) -> Flt(314, -132)
      [] a = Flt(3 * Scale, 0)  -> Flt(0, 176)
      [] a = Flt(-3 * Scale, 0) -> Flt(314, -176)

NumAdd(a, b) ==
    IF IsRat(a) /\ IsRat(b) THEN Rat(a[2] * b[3] + b[2] * a[3], a[3] * b[3])
    ELSE Flt(ToFlt(a)[2] + ToFlt(b)[2], ToFlt(a)[3] + ToFlt(b)[3])

NumMul(a, b) ==
    IF IsRat(a) /\ IsRat(b) THEN Rat(a[2] * b[2], a[3] * b[3])
    ELSE IF (IsRat(a) /\ a[2] = 0) \/ (IsRat(b) /\ b[2] = 0) THEN Integer(0)
    ELSE FMul(ToFlt(a), ToFlt(b))

\* a number to the power n >= 0
RECURSIVE NumPowInt(_, _)
NumPowInt(a, n) ==
    IF n = 0 THEN (IF IsFlt(a) THEN Flt(Scale, 0) ELSE Integer(1))
    ELSE NumMul(a, NumPowInt(a, n - 1))

IsSquare(n) == n >= 0 /\ ISqrt(n) * ISqrt(n) = n

-----------------------------------------------------------------------------
(* Expressions: <<"rat",p,q>>, <<"flt",re,im>>, <<"const",name>>,            *)
(* <<"sym",name>>, <<"fn",name,arg>>, <<"pow",base,exp>>, <<"mul",args>>,    *)
(* <<"add",args>>.  The constructors below keep them in canonical form:      *)
(* sums and products are flat, their numeric parts folded, like terms        *)
(* collected, arguments in a fixed order.                                    *)

SigmaName(var) == "σ_" \o var

\* every name a symbol, a constant or a function can carry, in sort order
NameOrder ==
    <<"E", "I", "acos", "e", "j", "nan", "pi", "x", "y", "zoo">>
        \o [i \in 1..Len(VarNames) |-> SigmaName(VarNames[i])]

NameCode(n) == CHOOSE i \in DOMAIN NameOrder : NameOrder[i] = n

RECURSIVE Key(_)
RECURSIVE KeyAll(_)
Key(e) ==
    CASE Tag(e) = "rat"   -> <<1, e[2], e[3]>>
      [] Tag(e) = "flt"   -> <<2, e[2], e[3]>>
      [] Tag(e) = "const" -> <<3, NameCode(e[2])>>
      [] Tag(e) = "sym"   -> <<4, NameCode(e[2])>>
      [] Tag(e) = "fn"    -> <<5, NameCode(e[2])>> \o Key(e[3])
      [] Tag(e) = "pow"   -> <<6>> \o Key(e[2]) \o Key(e[3])
      [] Tag(e) = "mul"   -> <<7, Len(e[2])>> \o KeyAll(e[2])
      [] Tag(e) = "add"   -> <<8, Len(e[2])>> \o KeyAll(e[2])
KeyAll(es) == IF es = <<>> THEN <<>> ELSE Key(Head(es)) \o KeyAll(Tail(es))

RECURSIVE LexLess(_, _)
LexLess(a, b) ==
    IF b = <<>> THEN FALSE
    ELSE IF a = <<>> THEN TRUE
    ELSE IF Head(a) # Head(b) THEN Head(a) < Head(b)
    ELSE LexLess(Tail(a), Tail(b))

\* e1 sorts before e2
Before(e1, e2) == LexLess(Key(e1), Key(e2))

AddArgs(e) == IF Tag(e) = "add" THEN e[2] ELSE <<e>>
MulArgs(e) == IF Tag(e) = "mul" THEN e[2] ELSE <<e>>

\* a term as <<coefficient, rest>>; the rest of a bare number is 1
AsCoeffMul(t) ==
    IF IsNumber(t) THEN <<t, Integer(1)>>
    ELSE IF Tag(t) = "mul" /\ IsNumber(t[2][1])
    THEN <<t[2][1], IF Len(t[2]) = 2 THEN t[2][2] ELSE <<"mul", Tail(t[2])>>>>
    ELSE <<Integer(1), t>>

\* a factor as <<base, exponent>>
AsBaseExp(f) == IF Tag(f) = "pow" THEN <<f[2], f[3]>> ELSE <<f, Integer(1)>>

\* pairs is a sequence of <<value, key>> sorted by key; put <<v, k>> in,
\* combining the values of equal keys with Combine
InsertAt(pairs, i, pr) ==
    SubSeq(pairs, 1, i - 1) \o <<pr>> \o SubSeq(pairs, i, Len(pairs))

Position(pairs, k) ==
    IF \E i \in DOMAIN pairs : ~Before(pairs[i][2], k)
    THEN CHOOSE i \in DOMAIN pairs :
            /\ ~Before(pairs[i][2], k)
            /\ \A j \in 1..(i - 1) : Before(pairs[j][2], k)
    ELSE Len(pairs) + 1

(* The engine's operations call one another; Engine is their one entry     *)
(* point, and the operators below it are how the operations are called.     *)
RECURSIVE Engine(_, _)

MkAdd(a, b) == Engine("Add", <<a, b>>)
MkMul(a, b) == Engine("Mul", <<a, b>>)
MkPow(b, e) == Engine("Pow", <<b, e>>)
MkFn(name, arg) == Engine("Function", <<name, arg>>)
Diff(e, v) == Engine("diff", <<e, v>>)
Subs(e, old, new) == Engine("subs", <<e, old, new>>)
Evalf(e) == Engine("evalf", <<e>>)
PExpr(ts, ns, im) == Engine("expression", <<ts, ns, im>>)
PExprRest(acc, ts, ns, im) == Engine("expression_rest", <<acc, ts, ns, im>>)
PTerm(ts, ns, im) == Engine("term", <<ts, ns, im>>)
PTermRest(acc, ts, ns, im) == Engine("term_rest", <<acc, ts, ns, im>>)
PUnary(ts, ns, im) == Engine("factor", <<ts, ns, im>>)
PPower(ts, ns, im) == Engine("power", <<ts, ns, im>>)
PAtom(ts, ns, im) == Engine("atom", <<ts, ns, im>>)

MkNeg(a) == MkMul(Integer(-1), a)
MkSub(a, b) == MkAdd(a, MkNeg(b))
MkDiv(a, b) == MkMul(a, MkPow(b, Integer(-1)))

RECURSIVE AddFold(_, _)
RECURSIVE MulFold(_, _, _)
RECURSIVE AddAll(_)
RECURSIVE MulAll(_)
RECURSIVE PowAll(_, _)

\* the term cr = <<coefficient, rest>> put into acc at its place
AddCollect(acc, cr) ==
    LET i == Position(acc, cr[2])
    IN  IF i <= Len(acc) /\ acc[i][2] = cr[2]
        THEN [acc EXCEPT ![i] = <<NumAdd(acc[i][1], cr[1]), cr[2]>>]
        ELSE InsertAt(acc, i, cr)

\* collect the terms ts into acc, a sequence of <<coefficient, rest>>
AddFold(acc, ts) ==
    IF ts = <<>> THEN acc
    ELSE AddFold(AddCollect(acc, AsCoeffMul(Head(ts))), Tail(ts))

\* a <<coefficient, rest>> or <<exponent, base>> pair that stays
NonZero(pair) == ~IsZero(pair[1])

TermOf(cr) ==
    IF IsOne(cr[2]) THEN cr[1]
    ELSE IF IsOne(cr[1]) THEN cr[2]
    ELSE IF Tag(cr[2]) = "mul" THEN <<"mul", <<cr[1]>> \o cr[2][2]>>
    ELSE <<"mul", <<cr[1], cr[2]>>>>

IsSymbolic(e) == ~IsNumber(e) /\ ~IsInfinite(e)

AddTerms(acc) ==
    IF acc = <<>> THEN Integer(0)
    ELSE IF Len(acc) = 1 THEN TermOf(acc[1])
    ELSE <<"add", [i \in DOMAIN acc |-> TermOf(acc[i])]>>

AddFlat(ts) ==
    IF \E i \in DOMAIN ts : ts[i] = Nan THEN Nan
    ELSE IF (\E i \in DOMAIN ts : ts[i] = Zoo)
             /\ ~(\E i \in DOMAIN ts : IsSymbolic(ts[i]))
    THEN IF Len(SelectSeq(ts, IsInfinite)) > 1 THEN Nan ELSE Zoo
    ELSE AddTerms(SelectSeq(AddFold(<<>>, ts), NonZero))

\* Add(a, b)
Add(a, b) == AddFlat(AddArgs(a) \o AddArgs(b))

AddAll(es) == IF es = <<>> THEN Integer(0) ELSE MkAdd(Head(es), AddAll(Tail(es)))

\* the factor be = <<base, exponent>> put into acc at its place
MulCollect(acc, be) ==
    LET i == Position(acc, be[1])
    IN  IF i <= Len(acc) /\ acc[i][2] = be[1]
        THEN [acc EXCEPT ![i] = <<MkAdd(acc[i][1], be[2]), be[1]>>]
        ELSE InsertAt(acc, i, <<be[2], be[1]>>)

\* collect the factors fs into the numeric coefficient c and acc, a
\* sequence of <<exponent, base>>
MulFold(c, acc, fs) ==
    IF fs = <<>> THEN <<c, acc>>
    ELSE IF IsNumber(Head(fs)) THEN MulFold(NumMul(c, Head(fs)), acc, Tail(fs))
    ELSE MulFold(c, MulCollect(acc, AsBaseExp(Head(fs))), Tail(fs))

\* the power of I an <<exponent, base>> sequence carries, mod 4
IPower(acc) ==
    IF \E i \in DOMAIN acc : acc[i][2] = ImagUnit /\ IsInteger(acc[i][1])
    THEN acc[CHOOSE i \in DOMAIN acc : acc[i][2] = ImagUnit][1][2] % 4
    ELSE 0

NotIntegerPowerOfI(eb) == ~(eb[2] = ImagUnit /\ IsInteger(eb[1]))
FactorOf(eb) == IF IsOne(eb[1]) THEN eb[2] ELSE <<"pow", eb[2], eb[1]>>

\* the product of the coefficient c and the factors facs
MulOf(c, facs) ==
    LET hasZoo == \E i \in DOMAIN facs : facs[i] = Zoo
    IN
    IF IsZero(c) THEN (IF hasZoo THEN Nan ELSE c)
    ELSE IF hasZoo /\ Len(facs) = 1 THEN Zoo
    ELSE IF facs = <<>> THEN c
    ELSE IF IsOne(c) \/ hasZoo
    THEN (IF Len(facs) = 1 THEN facs[1] ELSE <<"mul", facs>>)
    ELSE IF Len(facs) = 1 /\ Tag(facs[1]) = "add" /\ IsRat(c)
    THEN  \* a rational coefficient is distributed over a sum
          AddAll([i \in DOMAIN facs[1][2] |-> MkMul(c, facs[1][2][i])])
    ELSE <<"mul", <<c>> \o facs>>

\* an odd power of I stays a factor, unless a floating point coefficient
\* takes it in
MulImaginary(c0, odd, fac0) ==
    MulOf(IF odd /\ IsFlt(c0) THEN FMul(c0, Flt(0, Scale)) ELSE c0,
          IF odd /\ ~IsFlt(c0) THEN <<ImagUnit>> \o fac0 ELSE fac0)

\* rest: the factors but the integer powers of I and the zeroth powers
MulFactors(rest) == [i \in DOMAIN rest |-> FactorOf(rest[i])]

\* ca = <<coefficient, factors>>; the powers of I among the factors fold
\* into the sign and at most one factor I
MulPowerOfI(ca) ==
    LET n == IPower(ca[2])
    IN  MulImaginary(IF n \in {2, 3} THEN NumMul(ca[1], Integer(-1)) ELSE ca[1],
                     n \in {1, 3},
                     MulFactors(SelectSeq(SelectSeq(ca[2], NotIntegerPowerOfI),
                                          NonZero)))

MulFlat(fs) ==
    IF \E i \in DOMAIN fs : fs[i] = Nan THEN Nan
    ELSE MulPowerOfI(MulFold(Integer(1), <<>>, fs))

\* Mul(a, b)
Mul(a, b) == MulFlat(MulArgs(a) \o MulArgs(b))

MulAll(es) == IF es = <<>> THEN Integer(1) ELSE MkMul(Head(es), MulAll(Tail(es)))

PowAll(es, e) ==
    IF es = <<>> THEN Integer(1) ELSE MkMul(MkPow(Head(es), e), PowAll(Tail(es), e))

\* a rational to the power 1/2 or -1/2
RatSqrt(b, e) ==
    LET p == b[2]
        q == b[3]
        pos == IF e = Half THEN Rat(ISqrt(Abs(p)), ISqrt(q))
                           ELSE Rat(ISqrt(q), ISqrt(Abs(p)))
    IN  IF p = 0 THEN (IF e = Half THEN Integer(0) ELSE Zoo)
        ELSE IF ~(IsSquare(Abs(p)) /\ IsSquare(q)) THEN <<"pow", b, e>>
        ELSE IF p > 0 THEN pos
        ELSE IF e = Half THEN MkMul(pos, ImagUnit)
        ELSE MkMul(NumMul(pos, Integer(-1)), ImagUnit)

\* Pow(b, e)
Pow(b, e) ==
    IF b = Nan \/ e = Nan THEN Nan
    ELSE IF IsZero(e) THEN Integer(1)
    ELSE IF IsOne(e) THEN b
    ELSE IF IsOne(b) THEN b
    ELSE IF IsRat(b) /\ IsInteger(e)
    THEN IF e[2] > 0 THEN NumPowInt(b, e[2])
         ELSE IF b[2] = 0 THEN Zoo
         ELSE NumPowInt(Rat(b[3], b[2]), -e[2])
    ELSE IF IsFlt(b) /\ IsInteger(e)
    THEN IF e[2] > 0 THEN NumPowInt(b, e[2])
         ELSE IF IsZero(NumPowInt(b, -e[2])) THEN Zoo
         ELSE FInv(NumPowInt(b, -e[2]))
    ELSE IF IsFlt(b) /\ e = Half THEN FSqrt(b)
    ELSE IF IsFlt(b) /\ e = Rat(-1, 2)
    THEN IF IsZero(b) THEN Zoo ELSE FInv(FSqrt(b))
    ELSE IF IsRat(b) /\ e \in {Half, Rat(-1, 2)} THEN RatSqrt(b, e)
    ELSE IF b = ImagUnit /\ IsInteger(e)
    THEN CASE e[2] % 4 = 0 -> Integer(1)
           [] e[2] % 4 = 1 -> ImagUnit
           [] e[2] % 4 = 2 -> Integer(-1)
           [] e[2] % 4 = 3 -> <<"mul", <<Integer(-1), ImagUnit>>>>
    ELSE IF b = Zoo THEN (IF IsNumber(e) /\ e[2] < 0 THEN Integer(0) ELSE Zoo)
    ELSE IF Tag(b) = "pow" /\ IsInteger(e) THEN MkPow(b[2], MkMul(b[3], e))
    ELSE IF Tag(b) = "mul" /\ IsInteger(e) THEN PowAll(b[2], e)
    ELSE IF Tag(b) = "mul" /\ IsRat(e) /\ IsRat(b[2][1]) /\ Abs(b[2][1][2]) # b[2][1][3]
    THEN  \* the positive rational part of the coefficient comes out
          LET c    == b[2][1]
              absc == Rat(Abs(c[2]), c[3])
              rest == IF Len(b[2]) = 2 THEN b[2][2] ELSE <<"mul", Tail(b[2])>>
              kept == IF c[2] > 0 THEN rest
                      ELSE <<"mul", <<Integer(-1)>> \o MulArgs(rest)>>
          IN  MkMul(MkPow(absc, e), <<"pow", kept, e>>)
    ELSE <<"pow", b, e>>

\* sqrt(x) is Pow(x, 1/2); acos evaluates at the points it is exact at
Function(name, arg) ==
    CASE name = "sqrt" -> MkPow(arg, Half)
      [] name = "acos" ->
            IF IsFlt(arg) THEN FAcos(arg)
            ELSE IF arg = Integer(1) THEN Integer(0)
            ELSE IF arg = Integer(0) THEN MkMul(Half, Const("pi"))
            ELSE IF arg = Integer(-1) THEN Const("pi")
            ELSE <<"fn", "acos", arg>>

-----------------------------------------------------------------------------
(* The symbolic engine's operations the calls use *)

RECURSIVE FreeSymbols(_)
FreeSymbols(e) ==
    CASE Tag(e) \in {"rat", "flt", "const"} -> {}
      [] Tag(e) = "sym" -> {e[2]}
      [] Tag(e) = "fn"  -> FreeSymbols(e[3])
      [] Tag(e) = "pow" -> FreeSymbols(e[2]) \cup FreeSymbols(e[3])
      [] Tag(e) \in {"add", "mul"} ->
            UNION {FreeSymbols(e[2][i]) : i \in DOMAIN e[2]}

\* sp.diff(e, Symbol(v))
diff(e, v) ==
    CASE Tag(e) \in {"rat", "flt", "const"} -> Integer(0)
      [] Tag(e) = "sym" -> IF e[2] = v THEN Integer(1) ELSE Integer(0)
      [] Tag(e) = "add" -> AddAll([i \in DOMAIN e[2] |-> Diff(e[2][i], v)])
      [] Tag(e) = "mul" ->
            AddAll([i \in DOMAIN e[2] |->
                      MulAll([e[2] EXCEPT ![i] = Diff(e[2][i], v)])])
      [] Tag(e) = "pow" ->
            IF v \in FreeSymbols(e[3])
            THEN CHOOSE d \in {} : TRUE           \* outside the modelled domain
            ELSE MkMul(MkMul(e[3], MkPow(e[2], MkSub(e[3], Integer(1)))),
                       Diff(e[2], v))
      [] Tag(e) = "fn" ->    \* acos'(u) = -1/sqrt(1 - u**2)
            MkMul(MkNeg(MkPow(MkSub(Integer(1), MkPow(e[3], Integer(2))),
                              Rat(-1, 2))),
                  Diff(e[3], v))

\* e.subs(old, new) for an atom old
subs(e, old, new) ==
    IF e = old THEN new
    ELSE CASE Tag(e) \in {"rat", "flt", "const", "sym"} -> e
           [] Tag(e) = "fn"  -> MkFn(e[2], Subs(e[3], old, new))
           [] Tag(e) = "pow" -> MkPow(Subs(e[2], old, new), Subs(e[3], old, new))
           [] Tag(e) = "add" ->
                 AddAll([i \in DOMAIN e[2] |-> Subs(e[2][i], old, new)])
           [] Tag(e) = "mul" ->
                 MulAll([i \in DOMAIN e[2] |-> Subs(e[2][i], old, new)])

\* e.evalf(): numbers and constants become floating point, symbols stay
evalf(e) ==
    CASE Tag(e) = "rat" -> ToFlt(e)
      [] Tag(e) = "flt" -> e
      [] Tag(e) = "sym" -> e
      [] Tag(e) = "const" ->
            CASE e[2] = "pi" -> Flt(314, 0)
              [] e[2] = "E"  -> Flt(272, 0)
              [] e[2] = "I"  -> Flt(0, Scale)
              [] OTHER       -> e
      [] Tag(e) = "fn"  -> MkFn(e[2], Evalf(e[3]))
      [] Tag(e) = "pow" -> MkPow(Evalf(e[2]), e[3])
      [] Tag(e) = "add" -> AddAll([i \in DOMAIN e[2] |-> Evalf(e[2][i])])
      [] Tag(e) = "mul" -> MulAll([i \in DOMAIN e[2] |-> Evalf(e[2][i])])

-----------------------------------------------------------------------------
(* str(): an expression as text, a sequence of lexemes *)

RECURSIVE Flatten(_)
Flatten(ss) == IF ss = <<>> THEN <<>> ELSE Head(ss) \o Flatten(Tail(ss))

\* parts joined by the lexeme sep
RECURSIVE Join(_, _)
Join(ss, sep) ==
    IF ss = <<>> THEN <<>>
    ELSE IF Len(ss) = 1 THEN ss[1]
    ELSE ss[1] \o <<sep>> \o Join(Tail(ss), sep)

CoeffIsNeg(e) == IsRat(AsCoeffMul(e)[1]) /\ AsCoeffMul(e)[1][2] < 0

\* the printer's precedence levels
PRECEDENCE == [Add |-> 40, Mul |-> 50, Pow |-> 60, Atom |-> 1000]

Precedence(e) ==
    CASE Tag(e) = "rat" -> IF e[2] < 0 THEN PRECEDENCE.Add
                           ELSE IF e[3] # 1 THEN PRECEDENCE.Mul ELSE PRECEDENCE.Atom
      [] Tag(e) = "add" -> PRECEDENCE.Add
      [] Tag(e) = "mul" -> IF CoeffIsNeg(e) THEN PRECEDENCE.Add ELSE PRECEDENCE.Mul
      [] Tag(e) = "pow" -> PRECEDENCE.Pow
      [] OTHER -> PRECEDENCE.Atom

\* the terms of a sum in printing order: the number last, unless the sum is
\* a positive number and one term of negative coefficient
OrderedTerms(e) ==
    LET args == e[2]
    IN  IF ~IsNumber(args[1]) THEN args
        ELSE IF Len(args) = 2 /\ IsRat(args[1]) /\ args[1][2] > 0
                /\ Tag(args[2]) = "mul" /\ CoeffIsNeg(args[2])
        THEN args
        ELSE Tail(args) \o <<args[1]>>

\* numerator and denominator items of a product of non-negative coefficient
IsDenominator(f) == Tag(f) = "pow" /\ IsRat(f[3]) /\ f[3][2] < 0
NumeratorItems(fs) ==
    LET c == IF IsRat(fs[1]) THEN fs[1] ELSE Integer(1)
        r == IF IsRat(fs[1]) THEN Tail(fs) ELSE fs
        keep(f) == ~IsDenominator(f)
    IN  (IF c[2] # 1 THEN <<Integer(c[2])>> ELSE <<>>) \o SelectSeq(r, keep)
DenominatorItems(fs) ==
    LET c == IF IsRat(fs[1]) THEN fs[1] ELSE Integer(1)
        r == IF IsRat(fs[1]) THEN Tail(fs) ELSE fs
        d == SelectSeq(r, IsDenominator)
    IN  (IF c[3] # 1 THEN <<Integer(c[3])>> ELSE <<>>)
            \o [i \in DOMAIN d |->
                  IF d[i][3] = Integer(-1) THEN d[i][2]
                  ELSE <<"pow", d[i][2], NumMul(d[i][3], Integer(-1))>>]

\* e without the sign of its coefficient
Positive(e) ==
    IF IsRat(e) THEN Rat(Abs(e[2]), e[3])
    ELSE IF CoeffIsNeg(e)
    THEN LET c == AsCoeffMul(e)[1]
             r == AsCoeffMul(e)[2]
         IN  IF c = Integer(-1) THEN r
             ELSE <<"mul", <<Rat(-c[2], c[3])>> \o MulArgs(r)>>
    ELSE e

RECURSIVE Str(_)
RECURSIVE StrAll(_, _)
StrParen(e, level) ==
    IF Precedence(e) <= level THEN <<"(">> \o Str(e) \o <<")">> ELSE Str(e)
StrAll(es, level) ==
    IF es = <<>> THEN <<>> ELSE <<StrParen(Head(es), level)>> \o StrAll(Tail(es), level)
StrTerm(t, first) ==
    LET body == IF Tag(t) = "add" THEN <<"(">> \o Str(t) \o <<")">> ELSE Str(t)
    IN  IF Head(body) = "-" THEN (IF first THEN body ELSE <<"-">> \o Tail(body))
        ELSE (IF first THEN body ELSE <<"+">> \o body)
Str(e) ==
    CASE Tag(e) = "rat" ->
            (IF e[2] < 0 THEN <<"-">> ELSE <<>>)
                \o <<ToString(Abs(e[2]))>>
                \o (IF e[3] # 1 THEN <<"/", ToString(e[3])>> ELSE <<>>)
      [] Tag(e) \in {"const", "sym"} -> <<e[2]>>
      [] Tag(e) = "fn" -> <<e[2], "(">> \o Str(e[3]) \o <<")">>
      [] Tag(e) = "pow" ->
            IF e[3] = Half THEN <<"sqrt", "(">> \o Str(e[2]) \o <<")">>
            ELSE IF e[3] = Rat(-1, 2)
            THEN <<"1", "/", "sqrt", "(">> \o Str(e[2]) \o <<")">>
            ELSE IF e[3] = Integer(-1) THEN <<"1", "/">> \o StrParen(e[2], PRECEDENCE.Pow)
            ELSE StrParen(e[2], PRECEDENCE.Pow) \o <<"**">> \o StrParen(e[3], PRECEDENCE.Pow)
      [] Tag(e) = "mul" ->
            LET fs  == MulArgs(Positive(e))
                num == NumeratorItems(fs)
                den == DenominatorItems(fs)
                a   == IF num = <<>> THEN <<"1">> ELSE Join(StrAll(num, PRECEDENCE.Mul), "*")
                b   == Join(StrAll(den, PRECEDENCE.Mul), "*")
            IN  (IF CoeffIsNeg(e) THEN <<"-">> ELSE <<>>) \o a
                    \o (IF den = <<>> THEN <<>>
                        ELSE IF Len(den) = 1 THEN <<"/">> \o b
                        ELSE <<"/", "(">> \o b \o <<")">>)
      [] Tag(e) = "add" ->
            LET ts == OrderedTerms(e)
            IN  Flatten([i \in DOMAIN ts |-> StrTerm(ts[i], i = 1)])

-----------------------------------------------------------------------------
(* Parsing.  A namespace maps a name to what it is bound to: an expression  *)
(* or a callable <<"func", name>>.  A name bound nowhere becomes a Symbol.   *)

NumTokens == {ToString(n) : n \in 0..9}
NumVal(t) == CHOOSE n \in 0..9 : ToString(n) = t
\* a lexeme that is no number, no operator and not the stray character "$"
IsNameToken(t) ==
    t \notin NumTokens \cup {"+", "-", "*", "/", "**", "(", ")"} \cup {"$"}

Resolve(name, ns) == IF name \in DOMAIN ns THEN ns[name] ELSE Sym(name)

Parsed(e, rest) == [ok |-> TRUE, e |-> e, rest |-> rest, err |-> ""]
Failed(err) == [ok |-> FALSE, e |-> None, rest |-> <<>>, err |-> err]

\* ts: lexemes left, ns: namespace, im: implicit multiplication is on
expression(ts, ns, im) ==
    LET t == PTerm(ts, ns, im)
    IN  IF t.ok THEN PExprRest(t.e, t.rest, ns, im) ELSE t

expression_rest(acc, ts, ns, im) ==
    IF ts # <<>> /\ Head(ts) \in {"+", "-"}
    THEN LET r == PTerm(Tail(ts), ns, im)
         IN  IF ~r.ok THEN r
             ELSE PExprRest(IF Head(ts) = "+" THEN MkAdd(acc, r.e) ELSE MkSub(acc, r.e),
                            r.rest, ns, im)
    ELSE Parsed(acc, ts)

term(ts, ns, im) ==
    LET u == PUnary(ts, ns, im)
    IN  IF u.ok THEN PTermRest(u.e, u.rest, ns, im) ELSE u

term_rest(acc, ts, ns, im) ==
    IF ts # <<>> /\ Head(ts) \in {"*", "/"}
    THEN LET r == PUnary(Tail(ts), ns, im)
         IN  IF ~r.ok THEN r
             ELSE PTermRest(IF Head(ts) = "*" THEN MkMul(acc, r.e) ELSE MkDiv(acc, r.e),
                            r.rest, ns, im)
    ELSE IF ts # <<>> /\ (Head(ts) \in NumTokens \cup {"("} \/ IsNameToken(Head(ts)))
    THEN IF im
         THEN  \* "2x", "x y", "2(x+1)": a product
               LET r == PUnary(ts, ns, im)
               IN  IF ~r.ok THEN r ELSE PTermRest(MkMul(acc, r.e), r.rest, ns, im)
         ELSE Failed(IF Head(ts) = "(" THEN "TypeError" ELSE "SyntaxError")
    ELSE Parsed(acc, ts)

factor(ts, ns, im) ==
    IF ts = <<>> THEN Failed("SyntaxError")
    ELSE IF Head(ts) = "-"
    THEN LET r == PUnary(Tail(ts), ns, im)
         IN  IF r.ok THEN Parsed(MkNeg(r.e), r.rest) ELSE r
    ELSE IF Head(ts) = "+" THEN PUnary(Tail(ts), ns, im)
    ELSE PPower(ts, ns, im)

power(ts, ns, im) ==
    LET a == PAtom(ts, ns, im)
    IN  IF a.ok /\ a.rest # <<>> /\ Head(a.rest) = "**"
        THEN LET r == PUnary(Tail(a.rest), ns, im)
             IN  IF r.ok THEN Parsed(MkPow(a.e, r.e), r.rest) ELSE r
        ELSE a

atom(ts, ns, im) ==
    IF ts = <<>> THEN Failed("SyntaxError")
    ELSE IF Head(ts) \in NumTokens THEN Parsed(Integer(NumVal(Head(ts))), Tail(ts))
    ELSE IF Head(ts) = "("
    THEN LET r == PExpr(Tail(ts), ns, im)
         IN  IF ~r.ok THEN r
             ELSE IF r.rest # <<>> /\ Head(r.rest) = ")" THEN Parsed(r.e, Tail(r.rest))
             ELSE Failed("SyntaxError")
    ELSE IF IsNameToken(Head(ts))
    THEN LET b == Resolve(Head(ts), ns)
         IN  IF Tag(b) # "func" THEN Parsed(b, Tail(ts))
             ELSE IF Len(ts) >= 2 /\ ts[2] = "("
             THEN LET r == PExpr(Tail(Tail(ts)), ns, im)
                  IN  IF ~r.ok THEN r
                      ELSE IF r.rest # <<>> /\ Head(r.rest) = ")"
                      THEN Parsed(MkFn(b[2], r.e), Tail(r.rest))
                      ELSE Failed("SyntaxError")
             ELSE Failed("TypeError")     \* a bare callable in arithmetic
    ELSE Failed("SyntaxError")

\* the engine's entry point
Engine(op, a) ==
    CASE op = "Add"             -> Add(a[1], a[2])
      [] op = "Mul"             -> Mul(a[1], a[2])
      [] op = "Pow"             -> Pow(a[1], a[2])
      [] op = "Function"        -> Function(a[1], a[2])
      [] op = "diff"            -> diff(a[1], a[2])
      [] op = "subs"            -> subs(a[1], a[2], a[3])
      [] op = "evalf"           -> evalf(a[1])
      [] op = "expression"      -> expression(a[1], a[2], a[3])
      [] op = "expression_rest" -> expression_rest(a[1], a[2], a[3], a[4])
      [] op = "term"            -> term(a[1], a[2], a[3])
      [] op = "term_rest"       -> term_rest(a[1], a[2], a[3], a[4])
      [] op = "factor"          -> factor(a[1], a[2], a[3])
      [] op = "power"           -> power(a[1], a[2], a[3])
      [] op = "atom"            -> atom(a[1], a[2], a[3])

\* the nesting depth after each lexeme
RECURSIVE Depths(_, _)
Depths(ts, d) ==
    IF ts = <<>> THEN <<>>
    ELSE LET d2 == IF Head(ts) = "(" THEN d + 1
                   ELSE IF Head(ts) = ")" THEN d - 1 ELSE d
         IN  <<d2>> \o Depths(Tail(ts), d2)

Unbalanced(ts) ==
    LET ds == Depths(ts, 0)
    IN  (\E i \in DOMAIN ds : ds[i] < 0) \/ (ds # <<>> /\ ds[Len(ds)] # 0)

\* parse_expr: the tokenizer and the parenthesis grouping raise TokenError,
\* compiling and evaluating the code raise SyntaxError or TypeError
WholeInput(r) == IF r.ok /\ r.rest # <<>> THEN Failed("SyntaxError") ELSE r

ParseExpr(ts, ns, im) ==
    IF Unbalanced(ts) THEN Failed("TokenError") ELSE WholeInput(PExpr(ts, ns, im))

-----------------------------------------------------------------------------
(* latex(expr, mul_symbol="dot"): typeset markup, a sequence of lexemes *)

LatexName(n) ==
    CASE n = "pi" -> <<"\\pi">>
      [] n = "E"  -> <<"e">>
      [] n = "I"  -> <<"i">>
      [] \E i \in DOMAIN VarNames : n = SigmaName(VarNames[i]) ->
            <<"σ", "_{", VarNames[CHOOSE i \in DOMAIN VarNames :
                                     n = SigmaName(VarNames[i])], "}">>
      [] OTHER -> <<n>>

RECURSIVE Latex(_)
RECURSIVE LatexAll(_)
LatexAll(es) ==
    IF es = <<>> THEN <<>>
    ELSE <<IF Precedence(Head(es)) <= PRECEDENCE.Mul
           THEN <<"\\left(">> \o Latex(Head(es)) \o <<"\\right)">>
           ELSE Latex(Head(es))>> \o LatexAll(Tail(es))
LatexTerm(t, first) ==
    LET body == Latex(t)
    IN  IF Head(body) = "-" THEN (IF first THEN body ELSE <<"-">> \o Tail(body))
        ELSE (IF first THEN body ELSE <<"+">> \o body)
Latex(e) ==
    CASE Tag(e) = "rat" ->
            (IF e[2] < 0 THEN <<"-">> ELSE <<>>)
                \o (IF e[3] # 1
                    THEN <<"\\frac{", ToString(Abs(e[2])), "}{", ToString(e[3]), "}">>
                    ELSE <<ToString(Abs(e[2]))>>)
      [] Tag(e) \in {"const", "sym"} -> LatexName(e[2])
      [] Tag(e) = "fn" ->
            <<"\\operatorname{", e[2], "}{\\left(">> \o Latex(e[3]) \o <<"\\right)}">>
      [] Tag(e) = "pow" ->
            IF e[3] = Half THEN <<"\\sqrt{">> \o Latex(e[2]) \o <<"}">>
            ELSE IF IsRat(e[3]) /\ e[3][2] < 0
            THEN <<"\\frac{", "1", "}{">>
                    \o Latex(IF e[3] = Integer(-1) THEN e[2]
                             ELSE <<"pow", e[2], NumMul(e[3], Integer(-1))>>)
                    \o <<"}">>
            ELSE (IF Precedence(e[2]) <= PRECEDENCE.Pow
                  THEN <<"\\left(">> \o Latex(e[2]) \o <<"\\right)">>
                  ELSE Latex(e[2]))
                    \o <<"^{">> \o Latex(e[3]) \o <<"}">>
      [] Tag(e) = "mul" ->
            LET fs  == MulArgs(Positive(e))
                num == NumeratorItems(fs)
                den == DenominatorItems(fs)
                a   == IF num = <<>> THEN <<"1">> ELSE Join(LatexAll(num), "\\cdot")
                b   == Join(LatexAll(den), "\\cdot")
            IN  (IF CoeffIsNeg(e) THEN <<"-">> ELSE <<>>)
                    \o (IF den = <<>> THEN a
                        ELSE <<"\\frac{">> \o a \o <<"}{">> \o b \o <<"}">>)
      [] Tag(e) = "add" ->
            LET ts == OrderedTerms(e)
            IN  Flatten([i \in DOMAIN ts |-> LatexTerm(ts[i], i = 1)])

-----------------------------------------------------------------------------
(* The Function Library and the Expression Preprocessor *)

\* what the names of the symbolic engine are bound to (the part modelled)
SympyNamespace ==
    ("acos" :> <<"func", "acos">>) @@ ("sqrt" :> <<"func", "sqrt">>)
        @@ ("pi" :> Const("pi")) @@ ("E" :> Const("E")) @@ ("I" :> ImagUnit)

\* _get_math_functions(): a fresh dictionary, built from the engine's names
_get_math_functions ==
    ("acos" :> sp["acos"]) @@ ("sqrt" :> sp["sqrt"])
        @@ ("pi" :> sp["pi"]) @@ ("e" :> sp["E"]) @@ ("E" :> sp["E"])
        @@ ("I" :> sp["I"]) @@ ("j" :> sp["I"])

\* symbols = {var: sp.Symbol(var) for var in variables}
Symbols(vs) == [v \in Range(vs) |-> Sym(v)]

\* combined_locals = {**symbols, **math_functions}: on a name both carry,
\* the later entry, that of math_functions, is the one kept
CombinedLocals(symbols, math_functions) == math_functions @@ symbols

\* a name is looked up in the local dictionary, then in the engine's names
Namespace(local_dict) == local_dict @@ sp

\* _preprocess_formula(formula, variables, math_functions)
_preprocess_formula(f, vs, math_functions) ==
    ParseExpr(f, Namespace(CombinedLocals(Symbols(vs), math_functions)), TRUE)

\* variant: the parse binds the declared symbols among the engine's names
NamespaceBindingSymbols(symbols) == symbols @@ sp

\* the engine's names after a parse: parse_expr leaves them alone
NamespaceAfterParse(symbols) == sp

-----------------------------------------------------------------------------
(* Exceptions *)

NoExc == [type |-> "", msg |-> <<>>]
Ok(v) == [ok |-> TRUE, v |-> v, exc |-> NoExc]
Raise(type, msg) == [ok |-> FALSE, v |-> None, exc |-> [type |-> type, msg |-> msg]]

\* isinstance(e, cls): SympifyError is a ValueError, everything an Exception
IsInstance(type, cls) ==
    \/ cls = "Exception"
    \/ cls = type
    \/ cls = "ValueError" /\ type = "SympifyError"

ParseMessage(err) ==
    CASE err = "TokenError"  -> <<"Mismatched parentheses">>
      [] err = "SyntaxError" -> <<"invalid syntax">>
      [] err = "TypeError"   -> <<"unsupported operand type(s)">>

-----------------------------------------------------------------------------
(* The stages of calculate_symbolic_data *)

\* derivatives[var] = str(sp.diff(expr, sp.Symbol(var)))
DerivativeSet(e, vs) == [v \in Range(vs) |-> Str(Diff(e, v))]

\* value_subs = {var: values[i] for i, var in enumerate(variables)}
ValueSubs(vs, vals) == [i \in DOMAIN vs |-> <<vs[i], Flt(vals[i] * Scale, 0)>>]

\* expr.subs(value_subs); a key that is a string is read as an expression
RECURSIVE SubsAll(_, _)
SubsAll(e, value_subs) ==
    IF value_subs = <<>> THEN e
    ELSE SubsAll(Subs(e, Resolve(Head(value_subs)[1], sp), Head(value_subs)[2]),
                 Tail(value_subs))

\* variant: only an expression that is itself a symbol counts as unbound
IsBareSymbol(e) == Tag(e) = "sym"

\* if expr_value.free_symbols
HasFreeSymbols(e) == FreeSymbols(e) # {}

MissingVariables ==
    Raise("ValueError",
          <<"Expression could not be fully evaluated: missing variables?">>)

\* variant: a value that is not real is reported as a ValueError
ToFloatOrValueError(v) ==
    IF IsFlt(v) /\ v[3] = 0 THEN Ok(v[2])
    ELSE Raise("ValueError", <<"Expression value is not a real number">>)

\* float(expr_value): only a real number converts
ToFloat(v) ==
    IF IsFlt(v) /\ v[3] = 0 THEN Ok(v[2])
    ELSE IF IsFlt(v) THEN Raise("TypeError", <<"Cannot convert complex to float">>)
    ELSE IF v = Nan THEN CHOOSE r \in {} : TRUE    \* outside the modelled domain
    ELSE Raise("TypeError", <<"Cannot convert expression to float">>)

\* sp.sympify(text): a text that does not parse is a SympifyError
SympifyResult(r) ==
    IF r.ok THEN Ok(r.e)
    ELSE IF r.err \in {"TokenError", "SyntaxError"}
    THEN Raise("SympifyError", <<"could not parse">>)
    ELSE Raise(r.err, ParseMessage(r.err))

Sympify(text) == SympifyResult(ParseExpr(text, sp, FALSE))

\* abs(sp.im(deriv_value)) > 1e-10, the imaginary part in units of 1/Scale
ExceedsTolerance(im) == Abs(im) > (Scale \div 100000) \div 100000

SignificantImaginaryPart(var) ==
    Raise("ValueError",
          <<"Derivative with respect to ", var,
            " has a significant imaginary part.">>)

\* if abs(sp.im(deriv_value)) > 1e-10: raise; float(sp.re(deriv_value))
RealPart(var, deriv_value) ==
    IF ~IsFlt(deriv_value)
    THEN IF IsInfinite(deriv_value)
         THEN Raise("TypeError", <<"Invalid NaN comparison">>)
         ELSE Raise("TypeError", <<"cannot determine truth value of Relational">>)
    ELSE IF ExceedsTolerance(deriv_value[3]) THEN SignificantImaginaryPart(var)
    ELSE Ok(deriv_value[2])

\* deriv_value = deriv_expr.subs(value_subs).evalf()
DerivativeNumber(var, deriv_expr, value_subs) ==
    IF ~deriv_expr.ok THEN deriv_expr
    ELSE RealPart(var, Evalf(SubsAll(deriv_expr.v, value_subs)))

\* one turn of the loop over the variables: the value of a derivative
DerivativeValue(var, text, value_subs) ==
    DerivativeNumber(var, Sympify(text), value_subs)

\* the loop: the first failure ends it
RECURSIVE DerivativeValues(_, _, _, _)
NextDerivative(vs, derivs, value_subs, acc, r) ==
    IF r.ok
    THEN DerivativeValues(Tail(vs), derivs, value_subs, (Head(vs) :> r.v) @@ acc)
    ELSE r
DerivativeValues(vs, derivs, value_subs, acc) ==
    IF vs = <<>> THEN Ok(acc)
    ELSE NextDerivative(vs, derivs, value_subs, acc,
                        DerivativeValue(Head(vs), derivs[Head(vs)], value_subs))

NoResult == [pending |-> TRUE]

\* variant: the derivatives that are zero are left out of the result
SuccessResultWithoutZeros ==
    [expression |-> Str(expr),
     derivatives |-> [v \in {w \in DOMAIN derivatives : derivatives[w] # <<"0">>}
                        |-> derivatives[v]],
     numerical_value |-> numerical_value,
     numerical_derivatives |-> numerical_derivatives, success |-> TRUE]

SuccessResult ==
    [expression |-> Str(expr), derivatives |-> derivatives,
     numerical_value |-> numerical_value,
     numerical_derivatives |-> numerical_derivatives, success |-> TRUE]

\* variant: what was computed before the failure stays in the result
FailureResultKeepingLocals(prefix, e) ==
    [expression |-> formula, derivatives |-> derivatives,
     numerical_value |-> numerical_value,
     numerical_derivatives |-> numerical_derivatives, success |-> FALSE,
     error |-> <<prefix>> \o e.msg]

FailureResult(prefix, e) ==
    [expression |-> formula, derivatives |-> EmptyMap, numerical_value |-> 0,
     numerical_derivatives |-> EmptyMap, success |-> FALSE,
     error |-> <<prefix>> \o e.msg]

\* variant: the except clauses without the last, catch-all one
HandlersWithoutCatchAll ==
    << <<"SympifyError", "Invalid formula syntax: ">>,
       <<"ValueError", "Evaluation error: ">> >>

\* the except clauses of calculate_symbolic_data, in order
Handlers ==
    << <<"SympifyError", "Invalid formula syntax: ">>,
       <<"ValueError", "Evaluation error: ">>,
       <<"Exception", "Unexpected error: ">> >>

Catches(hs, e) == \E i \in DOMAIN hs : IsInstance(e.type, hs[i][1])
Handler(hs, e) ==
    hs[CHOOSE i \in DOMAIN hs :
          /\ IsInstance(e.type, hs[i][1])
          /\ \A j \in 1..(i - 1) : ~IsInstance(e.type, hs[j][1])]

-----------------------------------------------------------------------------
(* The stages of generate_latex_data *)

\* variant: the product is not squared
UncertaintyTermNotSquared(deriv, var) == MkMul(deriv, Sym(SigmaName(var)))

\* term = (deriv * sigma_var)**2
UncertaintyTerm(deriv, var) ==
    MkPow(MkMul(deriv, Sym(SigmaName(var))), Integer(2))

\* uncertainty_terms, in the order of the variables
UncertaintyTerms(e, vs) ==
    [i \in DOMAIN vs |-> UncertaintyTerm(Diff(e, vs[i]), vs[i])]

\* sum(terms): 0 + t1 + t2 + ...
RECURSIVE PySum(_, _)
PySum(start, ts) == IF ts = <<>> THEN start ELSE PySum(MkAdd(start, Head(ts)), Tail(ts))

UncertaintyExpr(e, vs) == MkFn("sqrt", PySum(Integer(0), UncertaintyTerms(e, vs)))

LatexSuccess(u) == [string |-> Str(u), latex |-> Latex(u), success |-> TRUE]

LatexFailure(e) == [string |-> <<>>, latex |-> <<>>, success |-> FALSE, error |-> e.msg]

LatexHandlers == << <<"Exception", "">> >>

-----------------------------------------------------------------------------
(* What the host may pass *)

Formulas ==
    { <<"x", "+", "y">>,
      <<"2", "*", "x", "-", "1">>,
      <<"2", "x">>,
      <<"acos", "(", "x", ")">>,
      <<"(", "x", "-", "2", ")", "*", "acos", "(", "x", ")">>,
      <<"y", "*", "sqrt", "(", "x", ")">>,
      <<"I", "*", "x">>,
      <<"e", "*", "x">>,
      <<"1", "/", "x">>,
      <<"pi">>,
      <<"(", "x", "+", "1">>,
      <<"x", ")">>,
      <<"x", "+">>,
      <<"x", "$", "y">> }

\* lists of distinct names, at most MaxVars long
VarLists ==
    UNION { {s \in [1..n -> Range(VarNames)] :
                \A i, j \in 1..n : i # j => s[i] # s[j]} : n \in 0..MaxVars }

CalculateName == "calculate_symbolic_data"
LatexName_ == "generate_latex_data"

\* the invocations the host repeats and compares the results of
Probes ==
    { [fn |-> CalculateName, formula |-> <<"x", "+", "y">>,
       variables |-> <<"x", "y">>, values |-> <<1, 2>>],
      [fn |-> CalculateName, formula |-> <<"x", "+", "y">>,
       variables |-> <<"x">>, values |-> <<1>>],
      [fn |-> CalculateName, formula |-> <<"I", "*", "x">>,
       variables |-> <<"I", "x">>, values |-> <<2, 1>>],
      [fn |-> CalculateName, formula |-> <<"acos", "(", "x", ")">>,
       variables |-> <<"x">>, values |-> <<2>>],
      [fn |-> LatexName_, formula |-> <<"x", "+", "y">>,
       variables |-> <<"x", "y">>, values |-> <<>>],
      [fn |-> LatexName_, formula |-> <<"x", "+">>,
       variables |-> <<"x">>, values |-> <<>>] }

Invocation ==
    [fn |-> fn, formula |-> formula, variables |-> variables, values |-> values]

\* memo: the invocation the host remembers, its result, and how many
\* invocations have returned since
NoMemo == [set |-> FALSE, call |-> [fn |-> "", formula |-> <<>>, variables |-> <<>>,
                                    values |-> <<>>], result |-> NoResult, since |-> 0]

-----------------------------------------------------------------------------
(* The state machine *)

Init ==
    /\ sp = SympyNamespace
    /\ pc = "idle"
    /\ fn = ""
    /\ formula = <<>>
    /\ variables = <<>>
    /\ values = <<>>
    /\ expr = None
    /\ uncertainty_expr = None
    /\ derivatives = EmptyMap
    /\ expr_value = None
    /\ numerical_value = 0
    /\ numerical_derivatives = EmptyMap
    /\ exc = NoExc
    /\ result = NoResult
    /\ memo = NoMemo

locals == <<expr, uncertainty_expr, derivatives, expr_value, numerical_value,
            numerical_derivatives, exc>>
args == <<fn, formula, variables, values>>

\* the host calls calculate_symbolic_data(formula, variables, values)
CallCalculate ==
    /\ pc = "idle"
    /\ \E f \in Formulas, vs \in VarLists :
         \E vals \in [1..Len(vs) -> ValueSet] :
            /\ fn' = CalculateName
            /\ formula' = f
            /\ variables' = vs
            /\ values' = vals
    /\ pc' = "preprocess"
    /\ UNCHANGED <<sp, locals, result, memo>>

\* the host calls generate_latex_data(formula, variables)
CallLatex ==
    /\ pc = "idle"
    /\ \E f \in Formulas, vs \in VarLists :
            /\ fn' = LatexName_
            /\ formula' = f
            /\ variables' = vs
            /\ values' = <<>>
    /\ pc' = "preprocess"
    /\ UNCHANGED <<sp, locals, result, memo>>

\* math_functions = _get_math_functions()
\* expr = _preprocess_formula(formula, variables, math_functions)
Preprocess ==
    /\ pc = "preprocess"
    /\ LET r == _preprocess_formula(formula, variables, _get_math_functions)
       IN  IF r.ok
           THEN /\ expr' = r.e
                /\ exc' = exc
                /\ pc' = IF fn = CalculateName THEN "differentiate" ELSE "synthesize"
           ELSE /\ expr' = expr
                /\ exc' = [type |-> r.err, msg |-> ParseMessage(r.err)]
                /\ pc' = "except"
    /\ sp' = NamespaceAfterParse(Symbols(variables))
    /\ UNCHANGED <<args, uncertainty_expr, derivatives, expr_value, numerical_value,
                   numerical_derivatives, result, memo>>

\* derivatives = {}; for var in variables: derivatives[var] = str(diff(...))
Differentiate ==
    /\ pc = "differentiate"
    /\ derivatives' = DerivativeSet(expr, variables)
    /\ pc' = "substitute"
    /\ UNCHANGED <<sp, args, expr, uncertainty_expr, expr_value, numerical_value,
                   numerical_derivatives, exc, result, memo>>

\* expr_value = expr.subs(value_subs); the free symbol check
Substitute ==
    /\ pc = "substitute"
    /\ expr_value' = SubsAll(expr, ValueSubs(variables, values))
    /\ IF HasFreeSymbols(expr_value')
       THEN exc' = MissingVariables.exc /\ pc' = "except"
       ELSE exc' = exc /\ pc' = "evaluate"
    /\ UNCHANGED <<sp, args, expr, uncertainty_expr, derivatives, numerical_value,
                   numerical_derivatives, result, memo>>

\* expr_value = expr_value.evalf(); numerical_value = float(expr_value)
Evaluate ==
    /\ pc = "evaluate"
    /\ expr_value' = Evalf(expr_value)
    /\ LET r == ToFloat(expr_value')
       IN  IF r.ok
           THEN numerical_value' = r.v /\ exc' = exc /\ pc' = "derivative_values"
           ELSE numerical_value' = numerical_value /\ exc' = r.exc /\ pc' = "except"
    /\ UNCHANGED <<sp, args, expr, uncertainty_expr, derivatives,
                   numerical_derivatives, result, memo>>

\* numerical_derivatives = {}; the loop over the variables
EvaluateDerivatives ==
    /\ pc = "derivative_values"
    /\ LET r == DerivativeValues(variables, derivatives,
                                 ValueSubs(variables, values), EmptyMap)
       IN  IF r.ok
           THEN numerical_derivatives' = r.v /\ exc' = exc /\ pc' = "return"
           ELSE /\ numerical_derivatives' = numerical_derivatives
                /\ exc' = r.exc
                /\ pc' = "except"
    /\ UNCHANGED <<sp, args, expr, uncertainty_expr, derivatives, expr_value,
                   numerical_value, result, memo>>

\* return {..., "success": True}
ReturnCalculate ==
    /\ pc = "return"
    /\ fn = CalculateName
    /\ result' = SuccessResult
    /\ pc' = "done"
    /\ UNCHANGED <<sp, args, locals, memo>>

\* the except clauses: the first that matches builds the result; an
\* exception none matches leaves the call
ExceptCalculate ==
    /\ pc = "except"
    /\ fn = CalculateName
    /\ IF Catches(Handlers, exc)
       THEN /\ result' = FailureResult(Handler(Handlers, exc)[2], exc)
            /\ pc' = "done"
       ELSE /\ result' = result
            /\ pc' = "escaped"
    /\ UNCHANGED <<sp, args, locals, memo>>

\* the loop over the variables, the sum and its square root
Synthesize ==
    /\ pc = "synthesize"
    /\ uncertainty_expr' = UncertaintyExpr(expr, variables)
    /\ pc' = "return"
    /\ UNCHANGED <<sp, args, expr, derivatives, expr_value, numerical_value,
                   numerical_derivatives, exc, result, memo>>

\* latex_formula, string_formula; return {..., "success": True}
ReturnLatex ==
    /\ pc = "return"
    /\ fn = LatexName_
    /\ result' = LatexSuccess(uncertainty_expr)
    /\ pc' = "done"
    /\ UNCHANGED <<sp, args, locals, memo>>

\* except Exception as e
ExceptLatex ==
    /\ pc = "except"
    /\ fn = LatexName_
    /\ IF Catches(LatexHandlers, exc)
       THEN result' = LatexFailure(exc) /\ pc' = "done"
       ELSE result' = result /\ pc' = "escaped"
    /\ UNCHANGED <<sp, args, locals, memo>>

\* the host repeats one of the probes
CallProbe ==
    /\ pc = "idle"
    /\ \E p \in Probes :
            /\ fn' = p.fn
            /\ formula' = p.formula
            /\ variables' = p.variables
            /\ values' = p.values
    /\ pc' = "preprocess"
    /\ UNCHANGED <<sp, locals, result, memo>>

\* the host keeps the result of a probe to compare a later one with
Remember ==
    /\ pc = "done"
    /\ Invocation \in Probes
    /\ ~(memo.set /\ memo.call = Invocation /\ memo.since = 0)
    /\ memo' = [set |-> TRUE, call |-> Invocation, result |-> result, since |-> 0]
    /\ UNCHANGED <<sp, pc, args, locals, result>>

\* the call has returned: its frame is gone, the host is free to call again
Release ==
    /\ pc = "done"
    /\ pc' = "idle"
    /\ fn' = ""
    /\ formula' = <<>>
    /\ variables' = <<>>
    /\ values' = <<>>
    /\ expr' = None
    /\ uncertainty_expr' = None
    /\ derivatives' = EmptyMap
    /\ expr_value' = None
    /\ numerical_value' = 0
    /\ numerical_derivatives' = EmptyMap
    /\ exc' = NoExc
    /\ result' = NoResult
    /\ memo' = IF memo.set /\ memo.since < MaxSince
               THEN [memo EXCEPT !.since = @ + 1] ELSE memo
    /\ sp' = sp

Next ==
    \/ CallCalculate
    \/ CallLatex
    \/ Preprocess
    \/ Differentiate
    \/ Substitute
    \/ Evaluate
    \/ EvaluateDerivatives
    \/ ReturnCalculate
    \/ ExceptCalculate
    \/ Synthesize
    \/ ReturnLatex
    \/ ExceptLatex
    \/ Release

Spec == Init /\ [][Next]_vars

\* the host repeating probes, remembering a result and comparing
NextRepeat ==
    \/ CallProbe
    \/ Preprocess
    \/ Differentiate
    \/ Substitute
    \/ Evaluate
    \/ EvaluateDerivatives
    \/ ReturnCalculate
    \/ ExceptCalculate
    \/ Synthesize
    \/ ReturnLatex
    \/ ExceptLatex
    \/ Remember
    \/ Release

SpecRepeat == Init /\ [][NextRepeat]_vars

-----------------------------------------------------------------------------
(* Properties of the two contracts.  A call has returned when pc = "done"; *)
(* its locals are still in place then, so a property can relate the result *)
(* to what the call computed on the way.                                    *)

Returned(name) == pc = "done" /\ fn = name

\* the formula parsed: expr was assigned
FormulaParsed == expr # None

\* the parsed formula with every declared variable replaced by its value
Residual == SubsAll(expr, ValueSubs(variables, values))

\* the value of the derivative with respect to v at the given point
DerivativeAt(v) == Evalf(SubsAll(Diff(expr, v), ValueSubs(variables, values)))

ImaginaryDerivative(v) ==
    IsFlt(DerivativeAt(v)) /\ ExceedsTolerance(DerivativeAt(v)[3])

FailsWith(prefix) == ~result.success /\ Head(result.error) = prefix

Reverse(s) == [i \in DOMAIN s |-> s[Len(s) + 1 - i]]

\* C1: whenever the parsed formula still has a free symbol after every
\* declared variable has been replaced by its value, calculate_symbolic_data
\* returns success = false with an error that starts "Evaluation error: ".
C1_MissingVariableDetected ==
    (Returned(CalculateName) /\ FormulaParsed /\ FreeSymbols(Residual) # {})
        => FailsWith("Evaluation error: ")

\* "x+y" with only x declared has returned, y unbound
C1_Witness ==
    /\ Returned(CalculateName)
    /\ formula = <<"x", "+", "y">>
    /\ variables = <<"x">>
    /\ FreeSymbols(Residual) = {"y"}
    /\ result.error = <<"Evaluation error: ">> \o MissingVariables.exc.msg

\* C2 (as the specification states it): whenever the derivative with
\* respect to a declared variable has, at the given point, an imaginary part
\* above the tolerance, calculate_symbolic_data returns success = false with
\* an error that starts "Evaluation error: " and names such a variable.
C2_ImaginaryDerivativeRejected ==
    (Returned(CalculateName) /\ FormulaParsed
        /\ \E v \in Range(variables) : ImaginaryDerivative(v))
        => /\ FailsWith("Evaluation error: ")
           /\ \E v \in Range(variables) :
                 ImaginaryDerivative(v) /\ v \in Range(result.error)

\* (x-2)*acos(x) at x = 2: the value is real, the derivative is not, and the
\* error names x
C2_Witness ==
    /\ Returned(CalculateName)
    /\ variables = <<"x">>
    /\ values = <<2>>
    /\ FormulaParsed
    /\ numerical_value = 0
    /\ ImaginaryDerivative("x")
    /\ result.error = <<"Evaluation error: ">> \o SignificantImaginaryPart("x").exc.msg

\* C3 (as the specification states it): whenever the formula cannot be
\* parsed, calculate_symbolic_data returns success = false with an error
\* that starts "Invalid formula syntax: ".
C3_MalformedFormulaClassified ==
    (Returned(CalculateName) /\ ~FormulaParsed)
        => FailsWith("Invalid formula syntax: ")

\* C4 (amended): in every result with success = false the derivatives and
\* the numerical derivatives are empty, the numerical value is 0 and nothing
\* computed before the failure is kept; the expression field of
\* calculate_symbolic_data is the formula as it was passed in; the string
\* and latex fields of generate_latex_data are empty.
C4_NeutralDefaultsOnFailure ==
    /\ (Returned(CalculateName) /\ ~result.success)
          => /\ result.expression = formula
             /\ result.derivatives = EmptyMap
             /\ result.numerical_value = 0
             /\ result.numerical_derivatives = EmptyMap
    /\ (Returned(LatexName_) /\ ~result.success)
          => /\ result.string = <<>>
             /\ result.latex = <<>>

\* a call that failed after it had computed its derivatives and its value
C4_Witness ==
    /\ Returned(CalculateName)
    /\ ~result.success
    /\ derivatives # EmptyMap
    /\ numerical_value # 0
    /\ result.derivatives = EmptyMap
    /\ result.numerical_value = 0

\* C4 (as the specification states it): on failure the expression field of
\* calculate_symbolic_data is the empty string, like the other fields.
C4_ExpressionEmptyOnFailure ==
    (Returned(CalculateName) /\ ~result.success)
        => /\ result.expression = <<>>
           /\ result.derivatives = EmptyMap
           /\ result.numerical_value = 0
           /\ result.numerical_derivatives = EmptyMap

\* C5 (amended): in every result of calculate_symbolic_data with
\* success = true the keys of the derivatives are exactly the declared
\* variable names.
C5_DerivativeKeysOnSuccess ==
    (Returned(CalculateName) /\ result.success)
        => DOMAIN result.derivatives = Range(variables)

\* a success with two declared variables, one of which the formula does not
\* mention
C5_Witness ==
    /\ Returned(CalculateName)
    /\ result.success
    /\ Len(variables) = 2
    /\ \E v \in Range(variables) : v \notin Range(formula)
    /\ DOMAIN result.derivatives = Range(variables)

\* C5 (as the specification states it): for every formula that parses and
\* mentions no symbol but the declared variables, the keys of the derivatives
\* in the result are exactly the declared variable names.
C5_DerivativeKeysWheneverParsed ==
    (Returned(CalculateName) /\ FormulaParsed
        /\ FreeSymbols(expr) \subseteq Range(variables))
        => DOMAIN result.derivatives = Range(variables)

\* C6 (as the specification states it): a declared variable whose name is
\* also a name of the function library, and which the formula mentions, is
\* in the parsed formula the declared variable's symbol.
C6_VariableWinsShadowing ==
    (pc \notin {"idle", "preprocess"} /\ FormulaParsed)
        => \A v \in Range(variables) \cap Range(formula) :
              v \in DOMAIN _get_math_functions => v \in FreeSymbols(expr)

Categories == {"Invalid formula syntax: ", "Evaluation error: ", "Unexpected error: "}

\* C7: no exception leaves either contract; a call returns a result that
\* has success = true and no error field, or success = false and an error
\* message, which for calculate_symbolic_data starts with one of the three
\* category prefixes.
C7_NoFailureEscapes ==
    /\ pc # "escaped"
    /\ pc = "done" =>
          \/ result.success /\ "error" \notin DOMAIN result
          \/ /\ ~result.success
             /\ "error" \in DOMAIN result
             /\ result.error # <<>>
             /\ fn = CalculateName => Head(result.error) \in Categories

\* an exception that only the last except clause matches was in flight
C7_Witness ==
    /\ Returned(CalculateName)
    /\ exc.type \in {"TypeError", "TokenError", "SyntaxError"}
    /\ FailsWith("Unexpected error: ")

\* C8: for every formula that parses, generate_latex_data succeeds; its
\* string and latex render sqrt(sum over the declared variables v of
\* (df/dv * σ_v)**2), whatever the order of the variables; the latex is not
\* empty; "x+y" over x and y gives the string sqrt(σ_x**2 + σ_y**2).
C8_RootSumOfSquares ==
    (Returned(LatexName_) /\ FormulaParsed) =>
        LET vs  == Reverse(variables)
            rss == MkFn("sqrt",
                        AddAll([i \in DOMAIN vs |->
                                  MkPow(MkMul(Diff(expr, vs[i]), Sym("σ_" \o vs[i])),
                                        Integer(2))]))
        IN  /\ result.success
            /\ result.string = Str(rss)
            /\ result.latex = Latex(rss)
            /\ result.latex # <<>>
            /\ (formula = <<"x", "+", "y">> /\ Range(variables) = {"x", "y"})
                  => result.string
                        = <<"sqrt", "(", "σ_x", "**", "2", "+", "σ_y", "**", "2", ")">>

\* "x+y" over y, x, in that order, has returned
C8_Witness ==
    /\ Returned(LatexName_)
    /\ formula = <<"x", "+", "y">>
    /\ variables = <<"y", "x">>
    /\ result.string = <<"sqrt", "(", "σ_x", "**", "2", "+", "σ_y", "**", "2", ")">>
    /\ result.latex # <<>>

\* C9: an invocation returns the result an earlier invocation of the same
\* contract with the same inputs returned, whatever ran in between, and no
\* invocation changes the names the function library is built from.
C9_Idempotent ==
    /\ sp = SympyNamespace
    /\ (pc = "done" /\ memo.set /\ memo.call = Invocation) => result = memo.result

\* a probe has returned again, with other invocations since it was remembered
C9_Witness ==
    /\ pc = "done"
    /\ memo.set
    /\ memo.call = Invocation
    /\ memo.since >= 2
    /\ result = memo.result

\* C10: when every free symbol is bound and the formula's own value at the
\* given point is not a real number, calculate_symbolic_data fails before it
\* evaluates any derivative, with an error that starts "Unexpected error: ".
C10_NonRealValueIsUnexpected ==
    (Returned(CalculateName) /\ FormulaParsed /\ FreeSymbols(Residual) = {}
        /\ ~(IsFlt(Evalf(Residual)) /\ Evalf(Residual)[3] = 0))
        => /\ FailsWith("Unexpected error: ")
           /\ numerical_derivatives = EmptyMap

\* acos(x) at x = 2: the value is not real, and neither is the derivative
C10_Witness ==
    /\ Returned(CalculateName)
    /\ formula = <<"acos", "(", "x", ")">>
    /\ variables = <<"x">>
    /\ values = <<2>>
    /\ Evalf(Residual)[3] # 0
    /\ ImaginaryDerivative("x")
    /\ FailsWith("Unexpected error: ")

=============================================================================
